---- MODULE Spec2Model ----
(***************************************************************************)
(* Model of the retrieval pipeline of the GCP RAG chatbot backend:         *)
(*   - chunk_text              (backend/app/utils/text_processing.py)      *)
(*   - cosine_similarity and search_similar_documents                      *)
(*                             (backend/app/services/firestore_client.py)  *)
(*   - the /chat handler       (backend/app/main.py)                       *)
(*   - sanitize_input, read_document and ingest_document                   *)
(*                             (backend/app/services/ingestion_service.py) *)
(* Texts are sequences of one-character strings; positions in the Python   *)
(* code are 0-based, positions of TLA+ sequences are 1-based.              *)
(***************************************************************************)
EXTENDS Integers, Sequences, FiniteSets, TLC

VARIABLES
    \* chunk_text
    text,           \* the text argument
    chunk_size,     \* the chunk_size argument
    overlap,        \* the overlap argument
    start,          \* local variable start
    chunks,         \* local list chunks (the return value once pc = "done")
    windows,        \* history: the [start, end) slice bounds of every iteration
    spans,          \* history: for each appended chunk, the text positions it holds
    iters,          \* history: number of iterations of the while loop so far
    pc,             \* "idle", "call", "loop", "done"
    \* the document store and search_similar_documents
    store,                  \* the collection: record i is the data of document id i
    query_embedding,        \* argument
    top_k,                  \* argument
    similarity_threshold,   \* argument
    max_documents,          \* argument: <<>> is None, <<n>> is the integer n
    scanned,                \* history: number of records the scoring loop took from the stream
    searchResult,           \* the returned list
    searchPc,               \* "idle", "call", "returned", "raised"
    \* the /chat handler
    message,                \* request.message
    gemini_client,          \* TRUE when the Gemini client was initialised
    firestore_client,       \* TRUE when the Firestore client was initialised
    rag_enabled,            \* settings.rag_enabled
    retrieved_docs,         \* local variable retrieved_docs
    ragFailed,              \* history: the retrieval except branch was taken
    searchRaised,           \* history: search_similar_documents raised in this request
    ragFailure,             \* history: what failed in retrieval: "none", "embedding",
                            \*          "store" (the read of the collection) or "mismatch"
    generation,             \* history: the generate_response call: "none", "ok", "raised"
    full_prompt,            \* "none", "plain" (the bare message) or "context"
    chatStatus,             \* HTTP status of the response, 0 before it
    detail,                 \* the detail of an error response, as its words
    chatPc,                 \* "idle", "request", "responded"
    \* IngestionService.ingest_document, one activation per caller in Calls
    pending,        \* per caller, the calls it still has to make (arguments of each)
    call,           \* per caller, the arguments and local variables of its current call
    provenance,     \* history: for each record of the store, the call that added it
    finished,       \* history: the calls that have returned, in the order of their return
    \* sanitize_input
    raw,            \* the text argument
    cleaned,          \* the return value once sanitizePc = "done"
    sanitizePc,     \* "idle", "call", "done"
    \* the IP whitelist middleware in front of the handlers
    request,            \* the HTTP request: path, proxy headers, peer address
    ingestion_enabled,  \* settings.ingestion_enabled
    ingestion_ip_whitelist, \* settings.ingestion_ip_whitelist, as its comma-separated items
    handlerReached,     \* history: call_next was invoked for the request
    mwStatus,           \* HTTP status of the response, 0 before it
    mwPc                \* "idle", "request", "responded"

chunkVars == <<text, chunk_size, overlap, start, chunks, windows, spans, iters, pc>>

searchVars == <<store, query_embedding, top_k, similarity_threshold, max_documents,
                scanned, searchResult, searchPc>>

chatVars == <<message, gemini_client, firestore_client, rag_enabled, retrieved_docs,
              ragFailed, searchRaised, ragFailure, generation, full_prompt, chatStatus,
              detail, chatPc>>

ingestVars == <<pending, call, provenance, finished>>

sanitizeVars == <<raw, cleaned, sanitizePc>>

whitelistVars == <<request, ingestion_enabled, ingestion_ip_whitelist, handlerReached,
                   mwStatus, mwPc>>

vars == <<chunkVars, searchVars, chatVars, ingestVars, sanitizeVars, whitelistVars>>

----------------------------------------------------------------------------
\* Bounds of the explored inputs

MaxLen == 5
MaxChunkSize == 3
MaxOverlap == 2
MaxIter == 7

Alphabet == {"a", ".", " ", "\n"}

Texts == UNION {[1..n -> Alphabet] : n \in 0..MaxLen}

ChunkSizes == -1..MaxChunkSize

Overlaps == -1..MaxOverlap

----------------------------------------------------------------------------
\* Python helpers

SetMin(S) == CHOOSE x \in S : \A y \in S : x <= y

SetMax(S) == CHOOSE x \in S : \A y \in S : x >= y

\* characters removed by str.strip()
Whitespace == {" ", "\n", "\t", "\r"}

\* a slice index as Python normalises it for a sequence of length n
SliceIndex(i, n) == IF i < 0 THEN (IF n + i < 0 THEN 0 ELSE n + i)
                    ELSE (IF i > n THEN n ELSE i)

\* s[a:b] with 0-based, possibly negative or out-of-range, bounds
PySlice(s, a, b) ==
    LET lo == SliceIndex(a, Len(s))
        hi == SliceIndex(b, Len(s))
    IN IF lo >= hi THEN <<>> ELSE SubSeq(s, lo + 1, hi)

\* variant: only the leading whitespace is removed
Strip_leading(s) ==
    LET keep == {i \in 1..Len(s) : s[i] \notin Whitespace}
    IN IF keep = {} THEN <<>> ELSE SubSeq(s, SetMin(keep), Len(s))

\* s.strip()
Strip(s) ==
    LET keep == {i \in 1..Len(s) : s[i] \notin Whitespace}
    IN IF keep = {} THEN <<>> ELSE SubSeq(s, SetMin(keep), SetMax(keep))

\* the 1-based text positions that text[a:b].strip() is copied from
StripPositions(s, a, b) ==
    LET lo == SliceIndex(a, Len(s))
        hi == SliceIndex(b, Len(s))
        keep == {i \in (lo + 1)..hi : s[i] \notin Whitespace}
    IN IF keep = {} THEN {} ELSE SetMin(keep)..SetMax(keep)

----------------------------------------------------------------------------
\* chunk_text

LookBack == 200

sentence_endings == << <<".", " ">>, <<".", "\n">>, <<"!", " ">>,
                       <<"!", "\n">>, <<"?", " ">>, <<"?", "\n">> >>

\* the inner for loop: the first ending that matches at 0-based position i
\* gives i + len(ending); no match leaves best_break as it was
MatchEnding(s, i, best_break) ==
    LET hits == {k \in 1..Len(sentence_endings) :
                    PySlice(s, i, i + Len(sentence_endings[k])) = sentence_endings[k]}
    IN IF hits = {} THEN best_break
       ELSE i + Len(sentence_endings[SetMin(hits)])

\* the iterations of the outer for loop for the positions lo..hi-1, entered
\* with best_break: the loop is left as soon as best_break < end. The range
\* is walked in two halves, left one first, so that the evaluation of the
\* 200 positions does not nest 200 deep.
RECURSIVE ScanRange(_, _, _, _, _)
ScanRange(s, lo, hi, end, best_break) ==
    IF lo >= hi THEN best_break
    ELSE IF hi = lo + 1 THEN MatchEnding(s, lo, best_break)
    ELSE LET mid == (lo + hi) \div 2
             nb == ScanRange(s, lo, mid, end, best_break)
         IN IF nb < end THEN nb ELSE ScanRange(s, mid, hi, end, nb)

\* the outer for loop over range(i, end), leaving at the first best_break < end
ScanBreak(s, i, end, best_break) == ScanRange(s, i, end, end, best_break)

\* variant: the scan covers the whole window, not its last 200 positions
WindowEnd_wholeWindow(s, st, size) ==
    LET end == st + size
    IN IF end < Len(s) THEN ScanBreak(s, st, end, end) ELSE end

\* the right edge of the window that starts at st
WindowEnd(s, st, size) ==
    LET end == st + size
    IN IF end < Len(s)
       THEN ScanBreak(s, IF st > end - LookBack THEN st ELSE end - LookBack, end, end)
       ELSE end

\* variant: the next window starts one character too far
NextStart_skipsOne(end, ov) == IF end - ov + 1 < 0 THEN 0 ELSE end - ov + 1

\* start = end - overlap, clamped at 0
NextStart(end, ov) == IF end - ov < 0 THEN 0 ELSE end - ov

\* variant: a text of exactly chunk_size characters enters the loop
FitsOneChunk_strict(s, size) == Len(s) < size

\* the early return for a text that fits in one chunk
FitsOneChunk(s, size) == Len(s) <= size

ChunkEmpty ==
    /\ pc = "call"
    /\ text = <<>>
    /\ chunks' = <<>>
    /\ pc' = "done"
    /\ UNCHANGED <<text, chunk_size, overlap, start, windows, spans, iters>>
    /\ UNCHANGED <<searchVars, chatVars, ingestVars, sanitizeVars, whitelistVars>>

ChunkWhole ==
    /\ pc = "call"
    /\ text /= <<>>
    /\ FitsOneChunk(text, chunk_size)
    /\ chunks' = <<text>>
    /\ spans' = <<1..Len(text)>>
    /\ pc' = "done"
    /\ UNCHANGED <<text, chunk_size, overlap, start, windows, iters>>
    /\ UNCHANGED <<searchVars, chatVars, ingestVars, sanitizeVars, whitelistVars>>

ChunkEnterLoop ==
    /\ pc = "call"
    /\ text /= <<>>
    /\ ~FitsOneChunk(text, chunk_size)
    /\ chunks' = <<>>
    /\ start' = 0
    /\ pc' = "loop"
    /\ UNCHANGED <<text, chunk_size, overlap, windows, spans, iters>>
    /\ UNCHANGED <<searchVars, chatVars, ingestVars, sanitizeVars, whitelistVars>>

ChunkIterate ==
    /\ pc = "loop"
    /\ start < Len(text)
    /\ iters < MaxIter
    /\ LET end == WindowEnd(text, start, chunk_size)
           chunk == Strip(PySlice(text, start, end))
           ns == NextStart(end, overlap)
       IN /\ chunks' = IF chunk /= <<>> THEN Append(chunks, chunk) ELSE chunks
          /\ spans' = IF chunk /= <<>>
                      THEN Append(spans, StripPositions(text, start, end))
                      ELSE spans
          /\ windows' = Append(windows, <<start, end>>)
          /\ start' = ns
          /\ pc' = IF ns >= Len(text) THEN "done" ELSE "loop"
    /\ iters' = iters + 1
    /\ UNCHANGED <<text, chunk_size, overlap>>
    /\ UNCHANGED <<searchVars, chatVars, ingestVars, sanitizeVars, whitelistVars>>


ChunkIdle ==
    /\ text = <<>>
    /\ chunk_size = 0
    /\ overlap = 0
    /\ start = 0
    /\ chunks = <<>>
    /\ windows = <<>>
    /\ spans = <<>>
    /\ iters = 0
    /\ pc = "idle"

NextChunk == ChunkEmpty \/ ChunkWhole \/ ChunkEnterLoop \/ ChunkIterate

----------------------------------------------------------------------------
\* chunk_text on long texts, with the configured chunk size and overlap:
\* texts of LongLen characters, all "a" but for up to two boundary markers

LongLen == 2500

settings_chunk_size == 1000

settings_chunk_overlap == 200

\* 0-based positions where a marker may start: before the range the first
\* window scans, just before it, at its first position, inside it and at
\* its last position
MarkerPositions == {100, 799, 800, 980, 999}

MarkerKinds == {<<".", " ">>, <<"!", "\n">>}

MarkerPlacements == {ms \in SUBSET MarkerPositions :
                        /\ Cardinality(ms) <= 2
                        /\ \A m \in ms : (m + 1) \notin ms}

\* the text of n characters with a marker of the given kind at each of ms
LongText(n, ms, kind) ==
    [i \in 1..n |-> IF (i - 1) \in ms THEN kind[1]
                    ELSE IF (i - 2) \in ms THEN kind[2]
                    ELSE "a"]

LongTexts == {LongText(LongLen, ms, kind) : ms \in MarkerPlacements, kind \in MarkerKinds}

----------------------------------------------------------------------------
\* The document store, cosine_similarity and search_similar_documents.
\* A similarity score s is held as the fraction <<n, d>>, d > 0, of its signed
\* square s * |s|: squaring keeps the order of scores and keeps the square
\* roots of the magnitudes out of the arithmetic.

MaxDocs == 3
MaxTopK == 2
MaxCap == 2

QueryEmbeddings == {<<1, 0>>, <<1, 1>>}

DocEmbeddings == {<<>>, <<1>>, <<1, 0>>, <<0, 1>>, <<1, 1>>, <<-1, 0>>}

\* stored records: with an embedding (possibly empty) or without the key
DocData == {[text |-> "p"]} \cup {[text |-> "p", embedding |-> e] : e \in DocEmbeddings}

Stores == UNION {[1..n -> DocData] : n \in 0..MaxDocs}

\* thresholds 0.0 and 0.5, as fractions
Thresholds == {<<0, 1>>, <<1, 2>>}

TopKs == -1..MaxTopK

Caps == {<<>>} \cup {<<n>> : n \in 0..MaxCap}

\* a >= b for fractions with positive denominators
FracGeq(a, b) == a[1] * b[2] >= b[1] * a[2]

\* the signed square of the fraction t
SignedSquare(t) == <<(IF t[1] < 0 THEN -1 ELSE 1) * t[1] * t[1], t[2] * t[2]>>

\* sum(a * b for a, b in zip(vec1, vec2))
RECURSIVE Dot(_, _)
Dot(vec1, vec2) ==
    IF vec1 = <<>> \/ vec2 = <<>> THEN 0
    ELSE Head(vec1) * Head(vec2) + Dot(Tail(vec1), Tail(vec2))

\* cosine_similarity: raises on vectors of different lengths, 0.0 for a zero
\* magnitude, else dot / (magnitude1 * magnitude2)
cosine_similarity(vec1, vec2) ==
    IF Len(vec1) /= Len(vec2) THEN [raised |-> TRUE, value |-> <<0, 1>>]
    ELSE LET dot_product == Dot(vec1, vec2)
             sq1 == Dot(vec1, vec1)
             sq2 == Dot(vec2, vec2)
         IN IF sq1 = 0 \/ sq2 = 0 THEN [raised |-> FALSE, value |-> <<0, 1>>]
            ELSE [raised |-> FALSE,
                  value |-> <<(IF dot_product < 0 THEN -1 ELSE 1) * dot_product * dot_product,
                              sq1 * sq2>>]

\* "if max_documents:" - None and 0 are both falsy
CapApplies(cap) == cap /= <<>> /\ cap[1] /= 0

\* query.stream(), after query.limit(max_documents) when the cap applies:
\* the records as (id, data) pairs in store order
FetchDocs(st, cap) ==
    LET n == IF CapApplies(cap) /\ cap[1] < Len(st) THEN cap[1] ELSE Len(st)
    IN [i \in 1..n |-> [id |-> i, data |-> st[i]]]

\* "if 'embedding' not in doc_data or not doc_data['embedding']: continue"
SkipsDoc(doc_data) == "embedding" \notin DOMAIN doc_data \/ doc_data.embedding = <<>>

\* similarity >= similarity_threshold
PassesThreshold(similarity, threshold) == FracGeq(similarity, SignedSquare(threshold))

\* {**doc_data, 'similarity': similarity, 'doc_id': doc.id}
ResultDoc(doc, similarity) ==
    ("similarity" :> similarity @@ "doc_id" :> doc.id) @@ doc.data

\* variant: a record without a usable embedding is scored 0.0 instead of skipped
ScoreOne_noSkip(doc, q, threshold) ==
    IF SkipsDoc(doc.data)
    THEN [raised |-> FALSE, keep |-> PassesThreshold(<<0, 1>>, threshold),
          entry |-> ResultDoc(doc, <<0, 1>>)]
    ELSE LET sim == cosine_similarity(q, doc.data.embedding)
         IN [raised |-> sim.raised,
             keep |-> ~sim.raised /\ PassesThreshold(sim.value, threshold),
             entry |-> ResultDoc(doc, sim.value)]

\* the body of the scoring loop for one record: skip it, raise, or score it
\* and keep it when it passes the threshold
ScoreOne(doc, q, threshold) ==
    IF SkipsDoc(doc.data)
    THEN [raised |-> FALSE, keep |-> FALSE, entry |-> ResultDoc(doc, <<0, 1>>)]
    ELSE LET sim == cosine_similarity(q, doc.data.embedding)
         IN [raised |-> sim.raised,
             keep |-> ~sim.raised /\ PassesThreshold(sim.value, threshold),
             entry |-> ResultDoc(doc, sim.value)]

\* the scoring loop from record i on; n counts the records taken from the stream
RECURSIVE ScoreDocs(_, _, _, _, _)
ScoreDocs(docs, i, q, threshold, scored_docs) ==
    IF i > Len(docs) THEN [raised |-> FALSE, scored |-> scored_docs, n |-> Len(docs)]
    ELSE LET one == ScoreOne(docs[i], q, threshold)
         IN IF one.raised THEN [raised |-> TRUE, scored |-> scored_docs, n |-> i]
            ELSE ScoreDocs(docs, i + 1, q, threshold,
                           IF one.keep THEN Append(scored_docs, one.entry)
                           ELSE scored_docs)

\* variant: the sort without reverse=True
RECURSIVE InsertSorted_ascending(_, _)
InsertSorted_ascending(sorted, d) ==
    IF sorted = <<>> THEN <<d>>
    ELSE IF FracGeq(d.similarity, Head(sorted).similarity)
         THEN <<Head(sorted)>> \o InsertSorted_ascending(Tail(sorted), d)
         ELSE <<d>> \o sorted

\* insertion of d into a list sorted by similarity descending, after the
\* entries that are not smaller (the sort is stable)
RECURSIVE InsertSorted(_, _)
InsertSorted(sorted, d) ==
    IF sorted = <<>> THEN <<d>>
    ELSE IF FracGeq(Head(sorted).similarity, d.similarity)
         THEN <<Head(sorted)>> \o InsertSorted(Tail(sorted), d)
         ELSE <<d>> \o sorted

\* scored_docs.sort(key=lambda x: x['similarity'], reverse=True)
RECURSIVE SortBySimilarity(_)
SortBySimilarity(scored_docs) ==
    IF scored_docs = <<>> THEN <<>>
    ELSE InsertSorted(SortBySimilarity(SubSeq(scored_docs, 1, Len(scored_docs) - 1)),
                      scored_docs[Len(scored_docs)])

\* scored_docs[:top_k]
TopSlice(scored_docs, k) == PySlice(scored_docs, 0, k)

\* the whole of search_similar_documents
search_similar_documents(st, q, k, threshold, cap) ==
    LET docs == FetchDocs(st, cap)
        sc == ScoreDocs(docs, 1, q, threshold, <<>>)
    IN IF sc.raised THEN [raised |-> TRUE, result |-> <<>>, n |-> sc.n]
       ELSE [raised |-> FALSE, result |-> TopSlice(SortBySimilarity(sc.scored), k), n |-> sc.n]

SearchReturn ==
    /\ searchPc = "call"
    /\ LET r == search_similar_documents(store, query_embedding, top_k,
                                         similarity_threshold, max_documents)
       IN /\ ~r.raised
          /\ searchResult' = r.result
          /\ scanned' = r.n
    /\ searchPc' = "returned"
    /\ UNCHANGED <<store, query_embedding, top_k, similarity_threshold, max_documents>>
    /\ UNCHANGED <<chunkVars, chatVars, ingestVars, sanitizeVars, whitelistVars>>

SearchRaise ==
    /\ searchPc = "call"
    /\ LET r == search_similar_documents(store, query_embedding, top_k,
                                         similarity_threshold, max_documents)
       IN /\ r.raised
          /\ scanned' = r.n
    /\ searchPc' = "raised"
    /\ UNCHANGED <<store, query_embedding, top_k, similarity_threshold, max_documents,
                   searchResult>>
    /\ UNCHANGED <<chunkVars, chatVars, ingestVars, sanitizeVars, whitelistVars>>

SearchIdle ==
    /\ query_embedding = <<>>
    /\ top_k = 0
    /\ similarity_threshold = <<0, 1>>
    /\ max_documents = <<>>
    /\ scanned = 0
    /\ searchResult = <<>>
    /\ searchPc = "idle"

NextSearch == SearchReturn \/ SearchRaise

----------------------------------------------------------------------------
\* The /chat handler

rag_top_k == 5

rag_similarity_threshold == <<0, 1>>

ChatMaxDocuments == <<1000>>

Messages == {<<>>, <<" ">>, <<"h", "i">>}

\* "if not request.message or not request.message.strip()"
MessageIsEmpty(m) == m = <<>> \/ Strip(m) = <<>>

\* variant: the retrieval block catches only the embedding failure, an
\* exception of search_similar_documents leaves the block
Retrieval_narrowExcept(embedOk, q, storeOk) ==
    IF ~(rag_enabled /\ firestore_client)
    THEN [docs |-> <<>>, failed |-> FALSE, searchRaised |-> FALSE, cause |-> "none",
          escaped |-> FALSE]
    ELSE IF ~embedOk
    THEN [docs |-> <<>>, failed |-> TRUE, searchRaised |-> FALSE, cause |-> "embedding",
          escaped |-> FALSE]
    ELSE IF ~storeOk
    THEN [docs |-> <<>>, failed |-> TRUE, searchRaised |-> TRUE, cause |-> "store",
          escaped |-> TRUE]
    ELSE LET r == search_similar_documents(store, q, rag_top_k,
                                           rag_similarity_threshold, ChatMaxDocuments)
         IN IF r.raised
            THEN [docs |-> <<>>, failed |-> TRUE, searchRaised |-> TRUE,
                  cause |-> "mismatch", escaped |-> TRUE]
            ELSE [docs |-> r.result, failed |-> FALSE, searchRaised |-> FALSE,
                  cause |-> "none", escaped |-> FALSE]

\* the retrieval block: embedOk and q are the outcome of the query-embedding
\* request, storeOk that of reading the collection inside
\* search_similar_documents (which logs and re-raises what it catches). Every
\* exception inside the block is caught by "except Exception" and leaves no
\* context: none escapes to the outer handler.
Retrieval(embedOk, q, storeOk) ==
    IF ~(rag_enabled /\ firestore_client)
    THEN [docs |-> <<>>, failed |-> FALSE, searchRaised |-> FALSE, cause |-> "none",
          escaped |-> FALSE]
    ELSE IF ~embedOk
    THEN [docs |-> <<>>, failed |-> TRUE, searchRaised |-> FALSE, cause |-> "embedding",
          escaped |-> FALSE]
    ELSE IF ~storeOk
    THEN [docs |-> <<>>, failed |-> TRUE, searchRaised |-> TRUE, cause |-> "store",
          escaped |-> FALSE]
    ELSE LET r == search_similar_documents(store, q, rag_top_k,
                                           rag_similarity_threshold, ChatMaxDocuments)
         IN IF r.raised
            THEN [docs |-> <<>>, failed |-> TRUE, searchRaised |-> TRUE,
                  cause |-> "mismatch", escaped |-> FALSE]
            ELSE [docs |-> r.result, failed |-> FALSE, searchRaised |-> FALSE,
                  cause |-> "none", escaped |-> FALSE]

\* "if context_text:" - the context is non-empty exactly when documents were retrieved
PromptFor(docs) == IF docs /= <<>> THEN "context" ELSE "plain"

\* str(e) of the exceptions that reach the outer handler, as words
ExceptionTexts == {<<"API", "Error">>, <<"quota", "exceeded">>, <<>>}

\* variant: the detail is the text of the exception alone
ErrorDetail_bare(e) == e

\* f"Error generating response: {str(e)}"
ErrorDetail(e) == <<"Error", "generating", "response:">> \o e

ChatEmptyMessage ==
    /\ chatPc = "request"
    /\ MessageIsEmpty(message)
    /\ chatStatus' = 400
    /\ detail' = <<"Message", "cannot", "be", "empty">>
    /\ chatPc' = "responded"
    /\ UNCHANGED <<message, gemini_client, firestore_client, rag_enabled, retrieved_docs,
                   ragFailed, searchRaised, ragFailure, generation, full_prompt>>
    /\ UNCHANGED <<chunkVars, searchVars, ingestVars, sanitizeVars, whitelistVars>>

ChatNoGemini ==
    /\ chatPc = "request"
    /\ ~MessageIsEmpty(message)
    /\ ~gemini_client
    /\ chatStatus' = 503
    /\ detail' = <<"Gemini", "API", "is", "not", "configured.", "Please", "set",
                   "GEMINI_API_KEY", "environment", "variable.">>
    /\ chatPc' = "responded"
    /\ UNCHANGED <<message, gemini_client, firestore_client, rag_enabled, retrieved_docs,
                   ragFailed, searchRaised, ragFailure, generation, full_prompt>>
    /\ UNCHANGED <<chunkVars, searchVars, ingestVars, sanitizeVars, whitelistVars>>

\* retrieval, prompt building and the generation call, which succeeds
ChatAnswer ==
    /\ chatPc = "request"
    /\ ~MessageIsEmpty(message)
    /\ gemini_client
    /\ \E embedOk \in BOOLEAN, q \in QueryEmbeddings, storeOk \in BOOLEAN :
          LET r == Retrieval(embedOk, q, storeOk)
          IN /\ ~r.escaped
             /\ retrieved_docs' = r.docs
             /\ ragFailed' = r.failed
             /\ searchRaised' = r.searchRaised
             /\ ragFailure' = r.cause
             /\ full_prompt' = PromptFor(r.docs)
    /\ generation' = "ok"
    /\ chatStatus' = 200
    /\ chatPc' = "responded"
    /\ UNCHANGED <<message, gemini_client, firestore_client, rag_enabled, detail>>
    /\ UNCHANGED <<chunkVars, searchVars, ingestVars, sanitizeVars, whitelistVars>>

\* the outer "except Exception": an exception that leaves the retrieval
\* block, or else one raised by the generation call, is answered with 500
ChatGenerationError ==
    /\ chatPc = "request"
    /\ ~MessageIsEmpty(message)
    /\ gemini_client
    /\ \E embedOk \in BOOLEAN, q \in QueryEmbeddings, storeOk \in BOOLEAN :
          LET r == Retrieval(embedOk, q, storeOk)
          IN /\ retrieved_docs' = r.docs
             /\ ragFailed' = r.failed
             /\ searchRaised' = r.searchRaised
             /\ ragFailure' = r.cause
             /\ full_prompt' = IF r.escaped THEN "none" ELSE PromptFor(r.docs)
             /\ generation' = IF r.escaped THEN "none" ELSE "raised"
    /\ chatStatus' = 500
    /\ \E e \in ExceptionTexts : detail' = ErrorDetail(e)
    /\ chatPc' = "responded"
    /\ UNCHANGED <<message, gemini_client, firestore_client, rag_enabled>>
    /\ UNCHANGED <<chunkVars, searchVars, ingestVars, sanitizeVars, whitelistVars>>

ChatIdle ==
    /\ message = <<>>
    /\ gemini_client = FALSE
    /\ firestore_client = FALSE
    /\ rag_enabled = FALSE
    /\ retrieved_docs = <<>>
    /\ ragFailed = FALSE
    /\ searchRaised = FALSE
    /\ ragFailure = "none"
    /\ generation = "none"
    /\ full_prompt = "none"
    /\ chatStatus = 0
    /\ detail = <<>>
    /\ chatPc = "idle"

NextChat == ChatEmptyMessage \/ ChatNoGemini \/ ChatAnswer \/ ChatGenerationError

----------------------------------------------------------------------------
\* sanitize_input and chunk_text as functions of their arguments

\* s with its leading whitespace removed
RECURSIVE DropLeadingWhitespace(_)
DropLeadingWhitespace(s) ==
    IF s /= <<>> /\ Head(s) \in Whitespace THEN DropLeadingWhitespace(Tail(s)) ELSE s

\* re.sub(r'\s+', ' ', text)
RECURSIVE CollapseWhitespace(_)
CollapseWhitespace(s) ==
    IF s = <<>> THEN <<>>
    ELSE IF Head(s) \in Whitespace
         THEN <<" ">> \o CollapseWhitespace(DropLeadingWhitespace(Tail(s)))
         ELSE <<Head(s)>> \o CollapseWhitespace(Tail(s))

\* variant: the result is not trimmed
sanitize_input_noTrim(s) == IF s = <<>> THEN <<>> ELSE CollapseWhitespace(s)

\* sanitize_input: the empty text as it is, else whitespace runs collapsed
\* to one space and the result stripped
sanitize_input(s) == IF s = <<>> THEN <<>> ELSE Strip(CollapseWhitespace(s))

\* the while loop of chunk_text from start st on. The loop has no state but
\* start, so it runs forever exactly when a value of start comes back.
RECURSIVE ChunkLoop(_, _, _, _, _, _)
ChunkLoop(s, st, size, ov, acc, seen) ==
    LET end == WindowEnd(s, st, size)
        chunk == Strip(PySlice(s, st, end))
        ns == NextStart(end, ov)
        acc2 == IF chunk /= <<>> THEN Append(acc, chunk) ELSE acc
    IN IF ns >= Len(s) THEN [diverges |-> FALSE, chunks |-> acc2]
       ELSE IF ns \in seen \cup {st} THEN [diverges |-> TRUE, chunks |-> <<>>]
       ELSE ChunkLoop(s, ns, size, ov, acc2, seen \cup {st})

\* chunk_text(text, chunk_size, overlap): the returned list, or diverges
chunk_text(s, size, ov) ==
    IF s = <<>> THEN [diverges |-> FALSE, chunks |-> <<>>]
    ELSE IF FitsOneChunk(s, size) THEN [diverges |-> FALSE, chunks |-> <<s>>]
    ELSE ChunkLoop(s, 0, size, ov, <<>>, {})

----------------------------------------------------------------------------
\* sanitize_input as a call: the argument is drawn from SanitizeInputs

MaxSanitizeLen == 4

SanitizeAlphabet == {"a", "b", " ", "\n", "\t"}

SanitizeInputs == UNION {[1..n -> SanitizeAlphabet] : n \in 0..MaxSanitizeLen}

\* "if not text: return ''"
SanitizeEmpty ==
    /\ sanitizePc = "call"
    /\ raw = <<>>
    /\ cleaned' = <<>>
    /\ sanitizePc' = "done"
    /\ UNCHANGED <<raw, chunkVars, searchVars, chatVars, ingestVars, whitelistVars>>

\* the substitution and the strip
SanitizeText ==
    /\ sanitizePc = "call"
    /\ raw /= <<>>
    /\ cleaned' = sanitize_input(raw)
    /\ sanitizePc' = "done"
    /\ UNCHANGED <<raw, chunkVars, searchVars, chatVars, ingestVars, whitelistVars>>

NextSanitize == SanitizeEmpty \/ SanitizeText

SanitizeIdle ==
    /\ raw = <<>>
    /\ cleaned = <<>>
    /\ sanitizePc = "idle"

----------------------------------------------------------------------------
\* IngestionService: read_document, get_embedding and ingest_document.
\* An optional argument is <<>> for None and <<v>> for the value v; a dict is
\* a function on its keys, <<>> being the empty dict.

MaxCalls == 2

Calls == {1, 2}

MaxErrors == 5

Filenames == {"a.txt", "b.md", "c.PDF", "d.docx"}

\* Path(filename).suffix.lower() on the file names used here
PathSuffixLower(filename) ==
    CASE filename = "a.txt" -> ".txt"
      [] filename = "b.md" -> ".md"
      [] filename = "c.PDF" -> ".pdf"
      [] filename = "d.docx" -> ".docx"

\* file contents: whether the bytes decode (UTF-8) or parse (PDF), and the
\* text they then give
RawTexts == { <<>>,
              <<" ", "\n">>,
              <<"a", "a", "a", "a", "a">>,
              <<"a", "a", "\n", "\n", "a", "a", "a">> }

Contents == {[readable |-> FALSE, text |-> <<>>]}
                \cup {[readable |-> TRUE, text |-> t] : t \in RawTexts}

Metadatas == { <<>>, <<[source_file |-> "x.txt", source_type |-> "manual"]>>,
               <<[chunk_index |-> 7, total_chunks |-> 1]>> }

SizeArgs == {<<>>, <<0>>, <<2>>}

OverlapArgs == {<<>>, <<0>>, <<1>>}

\* the arguments of one ingest_document call
CallArgs(f, c, m, size, ov) ==
    [filename |-> f, content |-> c, metadata |-> m, chunk_size |-> size, chunk_overlap |-> ov]

AllArgs == {CallArgs(f, c, m, size, ov) :
                f \in Filenames, c \in Contents, m \in Metadatas,
                size \in SizeArgs, ov \in OverlapArgs}

\* a few short documents: of 3 chunks, of 2 chunks, of an unsupported type,
\* without text, and one whose chunking does not end
ShortArgs ==
    { CallArgs("a.txt", [readable |-> TRUE, text |-> <<"a", "a", "a">>], <<>>, <<2>>, <<1>>),
      CallArgs("b.md", [readable |-> TRUE, text |-> <<"a", ".", " ", "a">>], <<>>, <<3>>, <<1>>),
      CallArgs("d.docx", [readable |-> TRUE, text |-> <<"a">>], <<>>, <<>>, <<>>),
      CallArgs("c.PDF", [readable |-> TRUE, text |-> <<" ", "\n">>], <<>>, <<>>, <<>>),
      CallArgs("c.PDF", [readable |-> TRUE, text |-> <<"a", "a", "a">>], <<>>, <<2>>, <<0>>) }

\* variant: a file of any other suffix is read as text
read_document_anySuffix(content, filename) ==
    [raised |-> ~content.readable, text |-> content.text]

\* read_document: the reader is chosen by the suffix; an unsupported suffix
\* and bytes that do not decode both raise ValueError
read_document(content, filename) ==
    IF PathSuffixLower(filename) \in {".md", ".markdown", ".pdf", ".txt"}
    THEN [raised |-> ~content.readable, text |-> content.text]
    ELSE [raised |-> TRUE, text |-> <<>>]

\* variant: no text is taken for empty
IsEmptyText_never(s) == FALSE

\* "if not text or not text.strip()"
IsEmptyText(s) == s = <<>> \/ Strip(s) = <<>>

\* "chunk_size or settings.chunk_size": None and 0 both give the setting
OrDefault(arg, default) == IF arg /= <<>> /\ arg[1] /= 0 THEN arg[1] ELSE default

\* "metadata or {}"
OrEmptyDict(m) == IF m = <<>> THEN <<>> ELSE m[1]

\* variant: the values derived from the file name win over the caller's
DocMetadata_derivedWins(filename, m) ==
    [source_file |-> filename, source_type |-> "uploaded"] @@ OrEmptyDict(m)

\* {"source_file": filename, "source_type": "uploaded", **(metadata or {})}
DocMetadata(filename, m) ==
    OrEmptyDict(m) @@ [source_file |-> filename, source_type |-> "uploaded"]

\* variant: the caller's metadata keys win over chunk_index and total_chunks
ChunkMetadata_callerWins(doc_metadata, i, n) ==
    doc_metadata @@ [chunk_index |-> i, total_chunks |-> n]

\* {**doc_metadata, "chunk_index": i, "total_chunks": len(chunks)}
ChunkMetadata(doc_metadata, i, n) ==
    [chunk_index |-> i, total_chunks |-> n] @@ doc_metadata

\* the record handed to collection.add
Passage(chunk, embedding, chunk_metadata) ==
    [text |-> chunk, embedding |-> embedding, metadata |-> chunk_metadata,
     created_at |-> "SERVER_TIMESTAMP"]

\* variant: a passage already in the store is not added again
StoreAdd_dedup(st, passage) ==
    IF \E k \in 1..Len(st) : st[k] = passage THEN st ELSE Append(st, passage)

\* collection.add: a new record with a fresh id
StoreAdd(st, passage) == Append(st, passage)

\* error_msg = f"Error processing chunk {i} from {filename}: {str(e)}"
ErrorMsg(i, filename, e) == [chunk |-> i, filename |-> filename, cause |-> e]

\* variant: success whatever the count
IngestSuccess_nonNegative(chunks_created) == chunks_created >= 0

\* "chunks_created > 0"
IngestSuccess(chunks_created) == chunks_created > 0

\* variant: the whole list
FirstErrors_all(errors) == errors

\* errors[:5]
FirstErrors(errors) == PySlice(errors, 0, MaxErrors)

\* the result dict built after the loop
IngestResult(c) ==
    LET result == [chunks_created |-> c.chunks_created, filename |-> c.filename,
                   success |-> IngestSuccess(c.chunks_created),
                   total_chunks |-> Len(c.chunks)]
    IN IF c.errors /= <<>> THEN [errors |-> FirstErrors(c.errors)] @@ result ELSE result

\* the result dict of a document without text
EmptyDocResult(filename) ==
    [chunks_created |-> 0, filename |-> filename, success |-> FALSE,
     error |-> "Document is empty or contains no valid text"]

\* the outcomes of genai.embed_content: a vector, an API error, or an empty
\* embedding, which get_embedding turns into ValueError
EmbedOutcomes == {"ok", "api_error", "empty_embedding"}

EmbeddingVector == <<1, 0>>

\* variant: an empty vector is returned to the caller like any other
get_embedding_acceptsEmpty(outcome) ==
    [raised |-> outcome = "api_error",
     embedding |-> IF outcome = "ok" THEN EmbeddingVector ELSE <<>>]

\* get_embedding: the vector, or the exception of the API call, or
\* ValueError for an empty vector
get_embedding(outcome) ==
    [raised |-> outcome /= "ok",
     embedding |-> IF outcome = "ok" THEN EmbeddingVector ELSE <<>>]

\* what ingest_document never touches: the other components' variables
ingestFrame ==
    <<chunkVars, chatVars, query_embedding, top_k, similarity_threshold, max_documents,
      scanned, searchResult, searchPc, sanitizeVars, whitelistVars>>

\* the local variables of a call that has not started
NoCall ==
    [pc |-> "idle", id |-> 0, filename |-> "", content |-> <<>>, metadata |-> <<>>,
     chunk_size |-> <<>>,
     chunk_overlap |-> <<>>, used_size |-> 0, used_overlap |-> 0, text |-> <<>>,
     chunks |-> <<>>, doc_metadata |-> <<>>, i |-> 0, embedding |-> <<>>,
     chunks_created |-> 0, errors |-> <<>>, result |-> <<>>, trace |-> <<>>]

\* caller p can begin its next call
CanCall(p) == call[p].pc \in {"idle", "returned", "raised"} /\ pending[p] /= <<>>

\* the state of a call up to the chunking
Started(p) ==
    LET a == Head(pending[p])
        doc == read_document(a.content, a.filename)
        clean == sanitize_input(doc.text)
        size == OrDefault(a.chunk_size, settings_chunk_size)
        ov == OrDefault(a.chunk_overlap, settings_chunk_overlap)
    IN [NoCall EXCEPT !.id = Len(pending[p]), !.filename = a.filename,
                      !.content = a.content, !.metadata = a.metadata, !.chunk_size = a.chunk_size,
                      !.chunk_overlap = a.chunk_overlap, !.text = clean,
                      !.used_size = size, !.used_overlap = ov]

\* read_document raises: the call ends with the exception
IngestRaise(p) ==
    /\ CanCall(p)
    /\ LET a == Head(pending[p])
       IN /\ read_document(a.content, a.filename).raised
          /\ call' = [call EXCEPT ![p] = [NoCall EXCEPT !.pc = "raised",
                                                        !.id = Len(pending[p]),
                                                        !.filename = a.filename,
                                                        !.content = a.content]]
    /\ pending' = [pending EXCEPT ![p] = Tail(@)]
    /\ UNCHANGED <<store, provenance, finished, ingestFrame>>

\* the sanitized text is empty: the call returns the failure result
IngestEmpty(p) ==
    /\ CanCall(p)
    /\ LET a == Head(pending[p])
           c == Started(p)
       IN /\ ~read_document(a.content, a.filename).raised
          /\ IsEmptyText(c.text)
          /\ call' = [call EXCEPT ![p] = [c EXCEPT !.pc = "returned",
                                                   !.used_size = 0, !.used_overlap = 0,
                                                   !.result = EmptyDocResult(c.filename)]]
          /\ finished' = Append(finished, [caller |-> p, args |-> a, chunks_created |-> 0,
                                           failed |-> 0])
    /\ pending' = [pending EXCEPT ![p] = Tail(@)]
    /\ UNCHANGED <<store, provenance, ingestFrame>>

\* chunk_text does not return: the call never gets past it
IngestHang(p) ==
    /\ CanCall(p)
    /\ LET a == Head(pending[p])
           c == Started(p)
       IN /\ ~read_document(a.content, a.filename).raised
          /\ ~IsEmptyText(c.text)
          /\ chunk_text(c.text, c.used_size, c.used_overlap).diverges
          /\ call' = [call EXCEPT ![p] = [c EXCEPT !.pc = "hung"]]
    /\ pending' = [pending EXCEPT ![p] = Tail(@)]
    /\ UNCHANGED <<store, provenance, finished, ingestFrame>>

\* read, sanitize, chunk and prepare the metadata: the call is at the head
\* of the loop over the chunks
IngestChunk(p) ==
    /\ CanCall(p)
    /\ LET a == Head(pending[p])
           c == Started(p)
           r == chunk_text(c.text, c.used_size, c.used_overlap)
       IN /\ ~read_document(a.content, a.filename).raised
          /\ ~IsEmptyText(c.text)
          /\ ~r.diverges
          /\ call' = [call EXCEPT ![p] =
                         [c EXCEPT !.pc = "embed", !.chunks = r.chunks,
                                   !.doc_metadata = DocMetadata(c.filename, c.metadata)]]
    /\ pending' = [pending EXCEPT ![p] = Tail(@)]
    /\ UNCHANGED <<store, provenance, finished, ingestFrame>>

\* variant: the loop steps over every other chunk
NextChunkIndex_skip(i) == i + 2

\* "for i, chunk in enumerate(chunks)": after chunk i comes chunk i + 1
NextChunkIndex(i) == i + 1

\* variant: the first failure ends the loop
ContinueLoop_break(i, n) == n

\* "continue" in the except clause: on to chunk i + 1 of n
ContinueLoop(i, n) == i + 1

\* variant: chunks_created is one counter shared by all calls
CountCreated_shared(cs, p) ==
    [q \in DOMAIN cs |-> [cs[q] EXCEPT !.chunks_created = @ + 1]]

\* "chunks_created += 1" on the local variable of call p
CountCreated(cs, p) == [cs EXCEPT ![p].chunks_created = @ + 1]

\* self.get_embedding(chunk) for chunk i: a vector, or an exception that is
\* recorded before the loop goes on to the next chunk
IngestEmbed(p) ==
    /\ call[p].pc = "embed"
    /\ call[p].i < Len(call[p].chunks)
    /\ \E outcome \in EmbedOutcomes :
          LET c == call[p]
              ev == [op |-> "embed", i |-> c.i, outcome |-> outcome]
              g == get_embedding(outcome)
          IN call' = [call EXCEPT ![p] =
                IF ~g.raised
                THEN [c EXCEPT !.pc = "add", !.embedding = g.embedding,
                               !.trace = Append(@, ev)]
                ELSE [c EXCEPT !.errors = Append(@, ErrorMsg(c.i, c.filename, outcome)),
                               !.i = ContinueLoop(@, Len(c.chunks)),
                               !.trace = Append(@, ev)]]
    /\ UNCHANGED <<store, pending, provenance, finished, ingestFrame>>

\* collection.add for chunk i: the record is added and counted, or the
\* exception is recorded; either way the loop goes on to the next chunk
IngestAdd(p) ==
    /\ call[p].pc = "add"
    /\ \E ok \in BOOLEAN :
          LET c == call[p]
              n == Len(c.chunks)
              passage == Passage(c.chunks[c.i + 1], c.embedding,
                                 ChunkMetadata(c.doc_metadata, c.i, n))
              ev == [op |-> "add", i |-> c.i, outcome |-> IF ok THEN "ok" ELSE "store_error"]
              next == [c EXCEPT !.pc = "embed", !.trace = Append(@, ev)]
          IN IF ok
             THEN /\ store' = StoreAdd(store, passage)
                  /\ provenance' = Append(provenance,
                                          [caller |-> p, id |-> c.id, i |-> c.i,
                                           filename |-> c.filename,
                                           metadata |-> c.metadata,
                                           text |-> c.text, used_size |-> c.used_size,
                                           used_overlap |-> c.used_overlap])
                  /\ call' = CountCreated([call EXCEPT ![p] =
                                              [next EXCEPT !.i = NextChunkIndex(@)]], p)
             ELSE /\ call' = [call EXCEPT ![p] =
                                 [next EXCEPT !.errors =
                                         Append(@, ErrorMsg(c.i, c.filename, "store_error")),
                                              !.i = ContinueLoop(@, n)]]
                  /\ UNCHANGED <<store, provenance>>
    /\ UNCHANGED <<pending, finished, ingestFrame>>

\* the loop is over: build and return the result
IngestReturn(p) ==
    /\ call[p].pc = "embed"
    /\ call[p].i = Len(call[p].chunks)
    /\ call' = [call EXCEPT ![p] = [@ EXCEPT !.pc = "returned",
                                             !.result = IngestResult(call[p])]]
    /\ finished' = Append(finished,
                          [caller |-> p,
                           args |-> CallArgs(call[p].filename, call[p].content,
                                             call[p].metadata, call[p].chunk_size,
                                             call[p].chunk_overlap),
                           chunks_created |-> call[p].chunks_created,
                           failed |-> Len(call[p].errors)])
    /\ UNCHANGED <<store, pending, provenance, ingestFrame>>

NextIngest ==
    \E p \in Calls :
        \/ IngestRaise(p) \/ IngestEmpty(p) \/ IngestHang(p) \/ IngestChunk(p)
        \/ IngestEmbed(p) \/ IngestAdd(p) \/ IngestReturn(p)

IngestIdle ==
    /\ pending = [p \in Calls |-> <<>>]
    /\ call = [p \in Calls |-> NoCall]
    /\ provenance = <<>>
    /\ finished = <<>>

----------------------------------------------------------------------------
\* The IP whitelist middleware: get_client_ip, is_ip_whitelisted and
\* ip_whitelist_middleware. The text of an address is held as what the
\* ipaddress module makes of it: [kind |-> "addr", version, n] for a text
\* that ip_address() accepts, [kind |-> "net", version, n, prefix] for a text
\* with "/" that ip_network() accepts, [kind |-> "junk", slash] for a text
\* that both reject, [kind |-> "blank"] for a text empty after strip().
\* Addresses are AddrBits wide.

AddrBits == 2

MaxWhitelist == 2

Addr(v, n) == [kind |-> "addr", version |-> v, n |-> n]

Net(v, n, prefix) == [kind |-> "net", version |-> v, n |-> n, prefix |-> prefix]

Junk(slash) == [kind |-> "junk", slash |-> slash]

Blank == [kind |-> "blank"]

\* the address texts a request can carry
ClientTexts == {Addr(4, 0), Addr(4, 1), Addr(4, 3), Addr(6, 1), Junk(FALSE), Blank}

\* the items of the whitelist setting: addresses, the networks 2/1 and 1/1
\* (the latter with host bits set), a network of the other version, texts
\* that do not parse, and an empty item
WhitelistItems == {Addr(4, 1), Addr(6, 1), Net(4, 2, 1), Net(4, 1, 1), Net(6, 0, 0),
                   Junk(FALSE), Junk(TRUE), Blank}

WhitelistSettings == UNION {[1..n -> WhitelistItems] : n \in 0..MaxWhitelist}

\* request paths, as character sequences
IngestPrefix == <<"/", "i", "n", "g", "e", "s", "t">>

Paths == { IngestPrefix, IngestPrefix \o <<"/", "x">>, IngestPrefix \o <<"i", "o", "n">>,
           <<"/", "c", "h", "a", "t">>, <<"/">> }

\* the requests: X-Forwarded-For is absent (<<>>) or a list of address
\* texts, X-Real-IP and the peer address are absent (<<>>) or one text
Requests ==
    [path : Paths,
     forwarded_for : {<<>>, <<Addr(4, 1)>>, <<Addr(4, 3), Addr(4, 1)>>, <<Blank, Addr(4, 1)>>},
     real_ip : {<<>>, <<Addr(4, 0)>>, <<Blank>>},
     client : {<<>>} \cup {<<t>> : t \in ClientTexts \ {Blank}}]

\* the statuses the handlers behind the middleware answer with
HandlerStatuses == {200, 400, 500}

RECURSIVE Pow2(_)
Pow2(k) == IF k <= 0 THEN 1 ELSE 2 * Pow2(k - 1)

\* path.startswith("/ingest")
StartsWithIngest(path) ==
    Len(path) >= Len(IngestPrefix) /\ SubSeq(path, 1, Len(IngestPrefix)) = IngestPrefix

\* a header value is falsy when the header is absent or its text is empty
HeaderSet(h) == h /= <<>> /\ ~(Len(h) = 1 /\ h[1] = Blank)

\* get_client_ip: the first item of X-Forwarded-For, else X-Real-IP, else
\* the peer address, else "unknown"
get_client_ip(req) ==
    IF HeaderSet(req.forwarded_for) THEN req.forwarded_for[1]
    ELSE IF HeaderSet(req.real_ip) THEN req.real_ip[1]
    ELSE IF req.client /= <<>> THEN req.client[1]
    ELSE Junk(FALSE)

\* settings.get_ip_whitelist(): the items that are not empty after strip()
get_ip_whitelist(setting) == SelectSeq(setting, LAMBDA item : item /= Blank)

\* "client_ip_obj in network", the network taken with strict=False
InNetwork(ip, net) ==
    /\ ip.version = net.version
    /\ ip.n \div Pow2(AddrBits - net.prefix) = net.n \div Pow2(AddrBits - net.prefix)

\* one pass of the loop over the whitelist: the item matches the address
ItemMatches(ip, item) ==
    \/ item.kind = "net" /\ InNetwork(ip, item)
    \/ item.kind = "addr" /\ item.version = ip.version /\ item.n = ip.n

\* variant: an address text that does not parse is let through
is_ip_whitelisted_lenient(ip, whitelist) ==
    \/ whitelist = <<>>
    \/ ip.kind /= "addr"
    \/ \E k \in 1..Len(whitelist) : ItemMatches(ip, whitelist[k])

\* is_ip_whitelisted: TRUE for the empty whitelist, FALSE for a text that
\* is no address, else whether some item matches
is_ip_whitelisted(ip, whitelist) ==
    \/ whitelist = <<>>
    \/ /\ ip.kind = "addr"
       /\ \E k \in 1..Len(whitelist) : ItemMatches(ip, whitelist[k])

\* ingestion is disabled: 503 for the ingestion paths
MwDisabled ==
    /\ mwPc = "request"
    /\ StartsWithIngest(request.path)
    /\ ~ingestion_enabled
    /\ mwStatus' = 503
    /\ mwPc' = "responded"
    /\ UNCHANGED <<request, ingestion_enabled, ingestion_ip_whitelist, handlerReached>>
    /\ UNCHANGED <<chunkVars, searchVars, chatVars, ingestVars, sanitizeVars>>

\* the whitelist is not empty and the client address is not on it: 403
MwForbidden ==
    /\ mwPc = "request"
    /\ StartsWithIngest(request.path)
    /\ ingestion_enabled
    /\ LET whitelist == get_ip_whitelist(ingestion_ip_whitelist)
       IN /\ whitelist /= <<>>
          /\ ~is_ip_whitelisted(get_client_ip(request), whitelist)
    /\ mwStatus' = 403
    /\ mwPc' = "responded"
    /\ UNCHANGED <<request, ingestion_enabled, ingestion_ip_whitelist, handlerReached>>
    /\ UNCHANGED <<chunkVars, searchVars, chatVars, ingestVars, sanitizeVars>>

\* call_next: another path, or an ingestion path with an empty whitelist or
\* a whitelisted client; the answer is the handler's
MwCallNext ==
    /\ mwPc = "request"
    /\ \/ ~StartsWithIngest(request.path)
       \/ /\ ingestion_enabled
          /\ LET whitelist == get_ip_whitelist(ingestion_ip_whitelist)
             IN \/ whitelist = <<>>
                \/ is_ip_whitelisted(get_client_ip(request), whitelist)
    /\ handlerReached' = TRUE
    /\ \E st \in HandlerStatuses : mwStatus' = st
    /\ mwPc' = "responded"
    /\ UNCHANGED <<request, ingestion_enabled, ingestion_ip_whitelist>>
    /\ UNCHANGED <<chunkVars, searchVars, chatVars, ingestVars, sanitizeVars>>

NextWhitelist == MwDisabled \/ MwForbidden \/ MwCallNext

WhitelistIdle ==
    /\ request = <<>>
    /\ ingestion_enabled = TRUE
    /\ ingestion_ip_whitelist = <<>>
    /\ handlerReached = FALSE
    /\ mwStatus = 0
    /\ mwPc = "idle"

----------------------------------------------------------------------------
\* Properties of chunk_text

\* chunk_size > 0 and 0 <= overlap < chunk_size
ValidParams == chunk_size > 0 /\ overlap >= 0 /\ overlap < chunk_size

CeilDiv(a, b) == (a + b - 1) \div b

\* the shape of a sanitize_input result: single spaces only, none at the edges
Sanitized(s) ==
    /\ \A i \in 1..Len(s) : s[i] \in Whitespace => s[i] = " "
    /\ Len(s) > 0 => (s[1] /= " " /\ s[Len(s)] /= " ")
    /\ \A i \in 1..(Len(s) - 1) : ~(s[i] = " " /\ s[i + 1] = " ")

\* position p of the text lies in some returned chunk
InSomeChunk(p) == \E k \in 1..Len(spans) : p \in spans[k]

\* position p of the text lies in the slice [start, end) of some iteration
InSomeWindow(p) == \E j \in 1..Len(windows) : windows[j][1] < p /\ p <= windows[j][2]

\* C1: for valid (chunk_size, overlap) the main loop of chunk_text runs at
\* most ceil(len(text) / (chunk_size - overlap)) iterations (and so terminates).
C1_IterationBound ==
    ValidParams => iters <= CeilDiv(Len(text), chunk_size - overlap)

\* C2: an iteration that does not advance the window (the next start is not
\* greater than the current one) ends chunk_text with an input-validation
\* failure instead of another iteration.
C2_NonAdvancingWindowRejected ==
    [][(ValidParams /\ pc = "loop" /\ start' <= start) => pc' = "invalid"]_vars

\* C3: a call with chunk_size <= 0, overlap < 0 or overlap >= chunk_size is
\* answered with a validation error: it neither returns chunks nor loops.
C3_BadParamsRejected ==
    (~ValidParams /\ text /= <<>> /\ pc \notin {"idle", "call"}) => pc = "invalid"

\* C4 as stated: every text, the empty one included, with
\* len(text) <= chunk_size is returned as the one-element list [text].
C4_FittingTextReturnedWhole ==
    (pc = "done" /\ ValidParams /\ Len(text) <= chunk_size) => chunks = <<text>>

\* C4 amended: a non-empty text with len(text) <= chunk_size is returned
\* unchanged as [text]; the empty text is returned as the empty list.
C4_NonEmptyFittingTextReturnedWhole ==
    (pc = "done" /\ Len(text) <= chunk_size)
        => chunks = (IF text = <<>> THEN <<>> ELSE <<text>>)

\* C4 witness: a fitting text with whitespace at its edge came back untrimmed
C4_Witness ==
    /\ pc = "done"
    /\ text /= <<>>
    /\ Len(text) = chunk_size
    /\ text[1] \in Whitespace
    /\ chunks = <<text>>

\* C5 as stated: for sanitized text and valid parameters the returned chunks
\* cover the text, no character of the text lies outside every chunk.
C5_EveryCharacterInSomeChunk ==
    (pc = "done" /\ ValidParams /\ Sanitized(text))
        => \A p \in 1..Len(text) : InSomeChunk(p)

\* C5 amended: for sanitized text and valid parameters every chunk is a
\* contiguous piece of the text, every non-whitespace character lies in some
\* chunk, and a character outside every chunk is whitespace trimmed from the
\* edge of a window that contains it.
C5_OnlyTrimmedWhitespaceUncovered ==
    (pc = "done" /\ ValidParams /\ Sanitized(text))
        => /\ Len(spans) = Len(chunks)
           /\ \A k \in 1..Len(chunks) :
                 /\ spans[k] /= {}
                 /\ chunks[k] = SubSeq(text, SetMin(spans[k]), SetMax(spans[k]))
           /\ \A p \in 1..Len(text) :
                 \/ InSomeChunk(p)
                 \/ text[p] \in Whitespace /\ InSomeWindow(p)

\* C5 witness: a sanitized text was split in several chunks and one of its
\* spaces is in none of them
C5_Witness ==
    /\ pc = "done"
    /\ ValidParams
    /\ Sanitized(text)
    /\ Len(chunks) >= 2
    /\ overlap > 0
    /\ \E p \in 1..Len(text) : ~InSomeChunk(p) /\ InSomeWindow(p)

----------------------------------------------------------------------------
\* Properties of search_similar_documents and of retrieval in /chat

\* the records the call fetched
Fetched == FetchDocs(store, max_documents)

\* the score of fetched record i (defined when it has an embedding)
ScoreOf(i) == cosine_similarity(query_embedding, Fetched[i].data.embedding).value

\* fetched records with a non-empty embedding
WithEmbedding ==
    {i \in 1..Len(Fetched) :
        "embedding" \in DOMAIN Fetched[i].data /\ Fetched[i].data.embedding /= <<>>}

\* fetched records with a non-empty embedding and a score >= the threshold
Eligible ==
    {i \in WithEmbedding : FracGeq(ScoreOf(i), SignedSquare(similarity_threshold))}

ReturnedIds == {searchResult[j].doc_id : j \in 1..Len(searchResult)}

SmallerOf(a, b) == IF a < b THEN a ELSE b

\* C6: the result is the first top_k entries of the eligible fetched
\* candidates ranked by similarity descending: every entry is a distinct
\* eligible candidate with its score, there are min(top_k, eligible) of them,
\* scores are >= the threshold and non-increasing, and no eligible candidate
\* left out scores higher than a returned one.
C6_RankedTopK ==
    searchPc = "returned" =>
        /\ \A j \in 1..Len(searchResult) :
              /\ searchResult[j].doc_id \in Eligible
              /\ searchResult[j].similarity = ScoreOf(searchResult[j].doc_id)
              /\ FracGeq(searchResult[j].similarity, SignedSquare(similarity_threshold))
        /\ Cardinality(ReturnedIds) = Len(searchResult)
        /\ top_k >= 0 => Len(searchResult) = SmallerOf(top_k, Cardinality(Eligible))
        /\ \A j \in 1..(Len(searchResult) - 1) :
              FracGeq(searchResult[j].similarity, searchResult[j + 1].similarity)
        /\ \A i \in Eligible \ ReturnedIds : \A j \in 1..Len(searchResult) :
              FracGeq(searchResult[j].similarity, ScoreOf(i))

\* C6 witness: the ranking reordered the candidates and top_k cut the list
C6_Witness ==
    /\ searchPc = "returned"
    /\ top_k = 2
    /\ Len(searchResult) = 2
    /\ searchResult[1].doc_id > searchResult[2].doc_id
    /\ Eligible \ ReturnedIds /= {}

\* C7: for every integer top_k, zero and negative values included, the
\* result has no more than top_k entries (none for top_k <= 0).
C7_AtMostTopK ==
    searchPc = "returned" => Len(searchResult) <= (IF top_k < 0 THEN 0 ELSE top_k)

\* C8: no returned passage has a missing or empty embedding, and such
\* passages take no result slot: the top_k slots are filled from the eligible
\* candidates alone.
C8_NoEmbeddingNeverReturned ==
    searchPc = "returned" =>
        /\ \A j \in 1..Len(searchResult) :
              /\ "embedding" \in DOMAIN searchResult[j]
              /\ searchResult[j].embedding /= <<>>
              /\ searchResult[j].doc_id \in WithEmbedding
        /\ (top_k >= 0 /\ Cardinality(Eligible) >= top_k) => Len(searchResult) = top_k

\* C8 witness: records without an embedding came first in the store and the
\* result is still full
C8_Witness ==
    /\ searchPc = "returned"
    /\ Len(Fetched) = 3
    /\ "embedding" \notin DOMAIN Fetched[1].data
    /\ "embedding" \in DOMAIN Fetched[2].data /\ Fetched[2].data.embedding = <<>>
    /\ top_k = 1
    /\ Len(searchResult) = 1

\* the records the scoring loop compared with the query: those among the
\* scanned ones that carry a non-empty embedding
Compared ==
    {i \in 1..scanned : "embedding" \in DOMAIN store[i] /\ store[i].embedding /= <<>>}

\* C9: for every cap given by the caller, 0 included, the number of records
\* fetched and compared with the query does not exceed the cap.
C9_ScanWithinCap ==
    (searchPc = "returned" /\ max_documents /= <<>>)
        => Cardinality(Compared) <= max_documents[1]

\* C10: when search_similar_documents raises on a candidate whose embedding
\* length differs from the query's, the /chat request ends in an error.
C10_MismatchReachesCaller ==
    (chatPc = "responded" /\ searchRaised /\ ragFailure = "mismatch") => chatStatus = 500

\* C11: when the query-embedding request or the read of the store fails, the
\* retrieval step yields no context and the failure is not propagated: the
\* generation call is still made, with the plain user message as prompt, and
\* the response is an error only when the generation call itself raises.
C11_RetrievalFailureDegrades ==
    (chatPc = "responded" /\ ragFailure \in {"embedding", "store"})
        => /\ retrieved_docs = <<>>
           /\ full_prompt = "plain"
           /\ generation \in {"ok", "raised"}
           /\ generation = "ok" => chatStatus = 200
           /\ generation = "raised" => chatStatus = 500

\* C11 witness: the read of a non-empty store failed and the request was
\* answered from the plain prompt
C11_Witness ==
    /\ chatPc = "responded"
    /\ ragFailure = "store"
    /\ store /= <<>>
    /\ full_prompt = "plain"
    /\ chatStatus = 200

----------------------------------------------------------------------------
\* Properties of ingest_document

\* call p has returned the result built after the chunk loop
ReachedLoop(p) == call[p].pc = "returned" /\ "total_chunks" \in DOMAIN call[p].result

\* the arguments of the current call of p
ArgsOf(p) ==
    CallArgs(call[p].filename, call[p].content, call[p].metadata, call[p].chunk_size,
             call[p].chunk_overlap)

\* what the trace tr says of chunk j
Embedded(tr, j) == \E k \in 1..Len(tr) : tr[k].op = "embed" /\ tr[k].i = j

EmbedOk(tr, j) ==
    \E k \in 1..Len(tr) : tr[k].op = "embed" /\ tr[k].i = j /\ tr[k].outcome = "ok"

Offered(tr, j) == \E k \in 1..Len(tr) : tr[k].op = "add" /\ tr[k].i = j

Stored(tr, j) ==
    \E k \in 1..Len(tr) : tr[k].op = "add" /\ tr[k].i = j /\ tr[k].outcome = "ok"

IsFailure(e) == e.outcome /= "ok"

\* the positions in the store of the records added by the current call of p
Own(p) ==
    {k \in 1..Len(provenance) :
        provenance[k].caller = p /\ provenance[k].id = call[p].id}

\* C12: a failure of the embedding request or of the insertion for one chunk
\* does not end the loop: in a call that returns from the loop every chunk
\* has been sent for embedding, and offered to the store when its embedding
\* came back; a document of 5 chunks where only the embedding of chunk 2
\* fails returns chunks_created = 4, success, and one error naming chunk 2.
C12_FailureDoesNotStopLoop ==
    \A p \in Calls :
        ReachedLoop(p) =>
            LET c == call[p]
                n == Len(c.chunks)
                failures == SelectSeq(c.trace, IsFailure)
            IN /\ \A j \in 0..(n - 1) :
                     /\ Embedded(c.trace, j)
                     /\ EmbedOk(c.trace, j) => Offered(c.trace, j)
               /\ (n = 5 /\ Len(failures) = 1 /\ failures[1].op = "embed"
                         /\ failures[1].i = 2)
                     => /\ c.result.chunks_created = 4
                        /\ c.result.success
                        /\ Len(c.result.errors) = 1
                        /\ c.result.errors[1].chunk = 2

C12_Witness ==
    /\ ReachedLoop(1)
    /\ Len(call[1].chunks) = 5
    /\ SelectSeq(call[1].trace, IsFailure)
           = <<[op |-> "embed", i |-> 2, outcome |-> "api_error"]>>
    /\ Stored(call[1].trace, 4)
    /\ call[1].result.chunks_created = 4

\* C13: a call that returns from the loop reports as chunks_created the
\* number of chunks both embedded and inserted, which is the number of
\* records it added to the store, and success exactly when that is positive.
C13_CreatedCountsStoredChunks ==
    \A p \in Calls :
        ReachedLoop(p) =>
            LET c == call[p]
                n == Len(c.chunks)
            IN /\ c.result.chunks_created
                    = Cardinality({j \in 0..(n - 1) :
                                      EmbedOk(c.trace, j) /\ Stored(c.trace, j)})
               /\ c.result.chunks_created = Cardinality(Own(p))
               /\ c.result.success <=> c.result.chunks_created > 0

C13_Witness ==
    /\ ReachedLoop(1)
    /\ Len(call[1].chunks) >= 2
    /\ Own(1) = {}
    /\ \E k \in 1..Len(call[1].trace) : call[1].trace[k].outcome = "store_error"
    /\ ~call[1].result.success

\* C14: the result has an errors list exactly when some chunk failed, and
\* the list is the messages of the first min(5, f) failed chunks in chunk
\* order, f = total_chunks - chunks_created being the number of failed chunks.
C14_FirstFiveErrors ==
    \A p \in Calls :
        ReachedLoop(p) =>
            LET c == call[p]
                r == c.result
                f == r.total_chunks - r.chunks_created
                failures == SelectSeq(c.trace, IsFailure)
            IN /\ Len(failures) = f
               /\ \A k, l \in 1..f : k < l => failures[k].i < failures[l].i
               /\ "errors" \in DOMAIN r <=> f > 0
               /\ f > 0 =>
                     /\ Len(r.errors) = (IF f < 5 THEN f ELSE 5)
                     /\ \A k \in 1..Len(r.errors) :
                           r.errors[k] = ErrorMsg(failures[k].i, c.filename,
                                                  failures[k].outcome)

C14_Witness ==
    /\ ReachedLoop(1)
    /\ call[1].result.total_chunks = 6
    /\ call[1].result.chunks_created = 0
    /\ Len(call[1].result.errors) = 5
    /\ call[1].result.errors[5].chunk = 4

\* the sum of chunks_created over a sequence of finished calls
RECURSIVE SumCreated(_)
SumCreated(fs) == IF fs = <<>> THEN 0 ELSE Head(fs).chunks_created + SumCreated(Tail(fs))

\* the calls that are inside the chunk loop
InLoop == {p \in Calls : call[p].pc \in {"embed", "add"}}

\* the chunks_created of the calls that are inside the chunk loop
RECURSIVE SumInLoop(_)
SumInLoop(ps) ==
    IF ps = {} THEN 0
    ELSE LET p == CHOOSE q \in ps : TRUE
         IN call[p].chunks_created + SumInLoop(ps \ {p})

\* st is a prefix of st2
IsPrefix(st, st2) == Len(st) <= Len(st2) /\ \A k \in 1..Len(st) : st[k] = st2[k]

\* the size of the store is the sum of the calls' chunks_created
StoreCountsCreated == Len(store) = SumCreated(finished) + SumInLoop(InLoop)

\* when the same document has been ingested n times without a failure, every
\* passage of the store is there n times
CopiesKept ==
    (/\ InLoop = {}
     /\ finished /= <<>>
     /\ \A k \in 1..Len(finished) :
           finished[k].args = finished[1].args /\ finished[k].failed = 0)
        => \A k \in 1..Len(store) :
              Cardinality({l \in 1..Len(store) : store[l] = store[k]}) = Len(finished)

\* C15: over any sequence of calls the store grows by exactly the
\* chunks_created of each call, no step removes or changes a record already
\* there, and ingesting the same document n times without a failure leaves n
\* copies of each of its passages.
C15_AppendOnlyNoDedup ==
    /\ [](StoreCountsCreated /\ CopiesKept)
    /\ [][IsPrefix(store, store')]_vars

C15_Witness ==
    /\ Len(finished) = 2
    /\ finished[1].args = finished[2].args
    /\ finished[1].failed = 0 /\ finished[2].failed = 0
    /\ Len(store) = 6
    /\ store[1] = store[4]

\* C16: a call whose sanitized text is empty returns, without raising, the
\* result success = false, chunks_created = 0 with an error text; it has sent
\* nothing for embedding and added nothing to the store.
C16_EmptyTextRejected ==
    \A p \in Calls :
        (call[p].pc \notin {"idle", "raised"} /\ call[p].text = <<>>)
            => /\ call[p].pc = "returned"
               /\ "error" \in DOMAIN call[p].result
               /\ ~call[p].result.success
               /\ call[p].result.chunks_created = 0
               /\ call[p].trace = <<>>
               /\ Own(p) = {}

C16_Witness ==
    /\ call[1].pc = "returned"
    /\ call[1].content.text = <<" ", "\n">>
    /\ call[1].text = <<>>
    /\ ~call[1].result.success

\* C17: a call on a file whose suffix is none of .md, .markdown, .pdf, .txt,
\* or whose bytes cannot be read, ends with the exception: it has no result,
\* has sent nothing for embedding and has added nothing to the store.
C17_UnreadableFails ==
    \A p \in Calls :
        (/\ call[p].pc /= "idle"
         /\ \/ PathSuffixLower(call[p].filename) \notin {".md", ".markdown", ".pdf", ".txt"}
            \/ ~call[p].content.readable)
            => /\ call[p].pc = "raised"
               /\ call[p].result = <<>>
               /\ call[p].trace = <<>>
               /\ Own(p) = {}

C17_Witness ==
    /\ call[1].pc = "raised"
    /\ call[1].filename = "d.docx"
    /\ call[1].content.readable
    /\ store /= <<>>

\* C18: every record of the store has 0 <= chunk_index < total_chunks, with
\* chunk_index the position of its text in the output of chunk_text for its
\* document and total_chunks the length of that output.
C18_ChunkIndexInRange ==
    /\ Len(provenance) = Len(store)
    /\ \A k \in 1..Len(store) :
          LET m == store[k].metadata
              pr == provenance[k]
              out == chunk_text(pr.text, pr.used_size, pr.used_overlap).chunks
          IN /\ 0 <= m.chunk_index /\ m.chunk_index < m.total_chunks
             /\ m.chunk_index = pr.i
             /\ m.total_chunks = Len(out)
             /\ store[k].text = out[m.chunk_index + 1]

C18_Witness ==
    /\ ReachedLoop(1)
    /\ call[1].metadata = <<[chunk_index |-> 7, total_chunks |-> 1]>>
    /\ call[1].errors /= <<>>
    /\ Len(store) >= 2
    /\ store[2].metadata.chunk_index = 3

\* C19: a call chunks with the chunk_size and chunk_overlap its caller gave,
\* whatever their value, and with the setting only where the caller gave none.
C19_ProvidedParametersUsed ==
    \A p \in Calls :
        (call[p].pc \in {"embed", "add", "hung"} \/ ReachedLoop(p))
            => /\ call[p].used_size = (IF call[p].chunk_size /= <<>>
                                       THEN call[p].chunk_size[1]
                                       ELSE settings_chunk_size)
               /\ call[p].used_overlap = (IF call[p].chunk_overlap /= <<>>
                                          THEN call[p].chunk_overlap[1]
                                          ELSE settings_chunk_overlap)

\* the outcome of chunk j in the trace tr
OutcomeOf(tr, j) ==
    LET ks == {k \in 1..Len(tr) : tr[k].i = j /\ (tr[k].op = "add" \/ IsFailure(tr[k]))}
    IN IF ks = {} THEN "none" ELSE tr[CHOOSE k \in ks : TRUE].outcome

\* the chunk loop of a call that runs alone, from chunk i on, under the
\* outcomes oc; acc holds chunks_created, errors and the passages added
RECURSIVE AloneLoop(_, _, _, _, _)
AloneLoop(a, cs, oc, i, acc) ==
    IF i >= Len(cs) THEN acc
    ELSE IF oc[i] = "ok"
         THEN AloneLoop(a, cs, oc, i + 1,
                  [acc EXCEPT !.chunks_created = @ + 1,
                              !.passages = Append(@,
                                  Passage(cs[i + 1], EmbeddingVector,
                                          ChunkMetadata(DocMetadata(a.filename, a.metadata),
                                                        i, Len(cs))))])
         ELSE AloneLoop(a, cs, oc, i + 1,
                  [acc EXCEPT !.errors = Append(@, ErrorMsg(i, a.filename, oc[i]))])

\* the result and the passages of ingest_document(a) run alone on an empty
\* store under the outcomes oc
Alone(a, oc) ==
    LET clean == sanitize_input(read_document(a.content, a.filename).text)
        cs == chunk_text(clean, OrDefault(a.chunk_size, settings_chunk_size),
                         OrDefault(a.chunk_overlap, settings_chunk_overlap)).chunks
        acc == AloneLoop(a, cs, oc, 0,
                         [chunks_created |-> 0, errors |-> <<>>, passages |-> <<>>])
    IN IF IsEmptyText(clean)
       THEN [result |-> EmptyDocResult(a.filename), passages |-> <<>>]
       ELSE [result |-> IngestResult([chunks_created |-> acc.chunks_created,
                                      filename |-> a.filename, chunks |-> cs,
                                      errors |-> acc.errors]),
             passages |-> acc.passages]

\* the records of the store added by the current call of p, in store order
RECURSIVE OwnPassages(_, _)
OwnPassages(p, k) ==
    IF k > Len(store) THEN <<>>
    ELSE (IF k \in Own(p) THEN <<store[k]>> ELSE <<>>) \o OwnPassages(p, k + 1)

\* C20: of two calls on different documents that interleave at their
\* embedding and insertion steps, each returns the result, and has added the
\* passages, of the same call run alone under the same outcomes.
C20_ConcurrentCallsIndependent ==
    \A p \in Calls :
        call[p].pc = "returned" =>
            LET n == Len(call[p].chunks)
                oc == [j \in 0..(n - 1) |-> OutcomeOf(call[p].trace, j)]
                alone == Alone(ArgsOf(p), oc)
            IN /\ call[p].result = alone.result
               /\ OwnPassages(p, 1) = alone.passages

C20_Witness ==
    /\ call[1].pc = "returned" /\ call[2].pc = "returned"
    /\ Len(store) >= 3
    /\ provenance[1].caller = 1 /\ provenance[2].caller = 2 /\ provenance[3].caller = 1
    /\ call[1].errors /= <<>>
    /\ call[2].result.chunks_created = 2

----------------------------------------------------------------------------
\* Properties of sanitize_input

\* the maximal runs of non-whitespace characters of s, in order
RECURSIVE Tokens(_, _)
Tokens(s, word) ==
    IF s = <<>> THEN (IF word = <<>> THEN <<>> ELSE <<word>>)
    ELSE IF Head(s) \in Whitespace
         THEN (IF word = <<>> THEN <<>> ELSE <<word>>) \o Tokens(Tail(s), <<>>)
         ELSE Tokens(Tail(s), Append(word, Head(s)))

\* C21: the result of sanitize_input has no whitespace at its edges, no
\* whitespace character but the single space, no two spaces in a row, and
\* the tokens of the input in their order; the empty input and an input of
\* whitespace only give the empty string.
C21_SanitizedShape ==
    sanitizePc = "done" =>
        /\ Sanitized(cleaned)
        /\ Tokens(cleaned, <<>>) = Tokens(raw, <<>>)
        /\ (\A i \in 1..Len(raw) : raw[i] \in Whitespace) => cleaned = <<>>

C21_Witness ==
    /\ sanitizePc = "done"
    /\ raw = <<"\t", "a", "\n", " ">>
    /\ cleaned = <<"a">>

----------------------------------------------------------------------------
\* Properties of the IP whitelist middleware

\* the client address of the request is on the whitelist setting: it is
\* one of its addresses or lies in one of its networks
ClientListed ==
    LET ip == get_client_ip(request)
    IN /\ ip.kind = "addr"
       /\ \E k \in 1..Len(ingestion_ip_whitelist) :
             LET item == ingestion_ip_whitelist[k]
                 width == Pow2(AddrBits - item.prefix)
             IN \/ item.kind = "addr" /\ item = ip
                \/ /\ item.kind = "net"
                   /\ item.version = ip.version
                   /\ (item.n \div width) * width <= ip.n
                   /\ ip.n < (item.n \div width) * width + width

\* C22: while ingestion is enabled, a request whose path starts with
\* /ingest and whose client address is on no item of the whitelist does not
\* reach the handler and is answered 403.
C22_OnlyWhitelistedReachIngest ==
    (/\ mwPc = "responded"
     /\ ingestion_enabled
     /\ StartsWithIngest(request.path)
     /\ ~ClientListed)
        => ~handlerReached /\ mwStatus = 403

----------------------------------------------------------------------------
\* Properties of the /chat error answers

\* str.lower() on the words of the details
LowerWord(w) ==
    CASE w = "Error" -> "error"
      [] w = "API" -> "api"
      [] w = "Message" -> "message"
      [] w = "Gemini" -> "gemini"
      [] w = "Please" -> "please"
      [] w = "GEMINI_API_KEY" -> "gemini_api_key"
      [] OTHER -> w

\* C23: when the generation call raises for an accepted message, /chat
\* answers 500 with a detail that, lower-cased as the test reads it,
\* contains the word error, whatever happened in retrieval before.
C23_GenerationErrorIs500 ==
    (chatPc = "responded" /\ generation = "raised")
        => /\ chatStatus = 500
           /\ \E k \in 1..Len(detail) : LowerWord(detail[k]) = "error"

C23_Witness ==
    /\ chatPc = "responded"
    /\ generation = "raised"
    /\ full_prompt = "context"
    /\ detail = <<"Error", "generating", "response:", "quota", "exceeded">>

----------------------------------------------------------------------------
\* Properties of the windows of chunk_text

\* a boundary marker starts at 0-based position i of s
IsMarkerAt(s, i) ==
    /\ i >= 0
    /\ i + 2 <= Len(s)
    /\ s[i + 1] \in {".", "!", "?"}
    /\ s[i + 2] \in {" ", "\n"}

\* the 0-based positions of the scan range of the window starting at st
\* where a marker starts
MarkersInRange(st) ==
    LET rawEnd == st + chunk_size
        lo == IF st > rawEnd - 200 THEN st ELSE rawEnd - 200
    IN {i \in lo..(rawEnd - 1) : IsMarkerAt(text, i)}

\* C24: a window whose start + chunk_size lies before the end of the text
\* ends right after the first boundary marker that starts in
\* [max(start, end - 200), end), and at start + chunk_size when there is none.
C24_WindowEndsAfterFirstMarker ==
    \A j \in 1..Len(windows) :
        LET st == windows[j][1]
            rawEnd == st + chunk_size
            markers == MarkersInRange(st)
        IN rawEnd < Len(text) =>
              windows[j][2] = (IF markers = {} THEN rawEnd ELSE SetMin(markers) + 2)

C24_Witness ==
    /\ pc = "done"
    /\ Len(text) > 1000
    /\ IsMarkerAt(text, 100)
    /\ IsMarkerAt(text, 980)
    /\ windows[1] = <<0, 982>>

\* C25: the window after [start, end) starts at max(0, end - overlap); with
\* chunk_size 1000 and overlap 200 on a long text whose first marker in the
\* scan range of the first window is at character 980, the first window
\* ends at 982 and the second starts at 782.
C25_NextWindowStart ==
    /\ \A j \in 1..(Len(windows) - 1) :
          LET ns == windows[j][2] - overlap
          IN windows[j + 1][1] = (IF ns < 0 THEN 0 ELSE ns)
    /\ (pc = "loop" /\ windows /= <<>>) =>
          LET ns == windows[Len(windows)][2] - overlap
          IN start = (IF ns < 0 THEN 0 ELSE ns)
    /\ (/\ chunk_size = 1000 /\ overlap = 200 /\ Len(text) > 1000
        /\ Len(windows) >= 2
        /\ MarkersInRange(0) /= {}
        /\ SetMin(MarkersInRange(0)) = 980)
          => windows[1] = <<0, 982>> /\ windows[2][1] = 782

C25_Witness ==
    /\ pc = "done"
    /\ chunk_size = 1000 /\ overlap = 200
    /\ Len(text) >= 2500
    /\ MarkersInRange(0) = {980}
    /\ windows[1] = <<0, 982>>
    /\ windows[2][1] = 782
    /\ Len(chunks) >= 3

\* C26: for valid parameters every window starts after the window before
\* it: the start never repeats and never moves back.
C26_WindowStartsIncrease ==
    ValidParams =>
        \A j \in 1..(Len(windows) - 1) : windows[j + 1][1] > windows[j][1]

\* C27: for valid parameters no chunk is longer than chunk_size, also when a
\* marker at the last scanned position moves the end of the window to
\* start + chunk_size + 1.
C27_ChunkFitsChunkSize ==
    ValidParams => \A k \in 1..Len(chunks) : Len(chunks[k]) <= chunk_size

C27_Witness ==
    /\ pc = "done"
    /\ ValidParams
    /\ Len(chunks) >= 2
    /\ windows[1][2] = chunk_size + 1
    /\ Len(chunks[1]) = chunk_size

----------------------------------------------------------------------------
\* Properties of the passages ingest_document stores

\* C28: in one call the external calls come one at a time and in chunk
\* order: the first is the embedding request of chunk 0, an insertion
\* follows the successful embedding request of its chunk, and an embedding
\* request follows the insertion or the failed request of the chunk before;
\* so the passages of the call are in the store in increasing chunk_index,
\* with gaps where a chunk failed.
C28_SequentialInChunkOrder ==
    \A p \in Calls :
        LET tr == call[p].trace
        IN /\ tr /= <<>> => (tr[1].op = "embed" /\ tr[1].i = 0)
           /\ \A k \in 1..(Len(tr) - 1) :
                 IF tr[k + 1].op = "add"
                 THEN tr[k].op = "embed" /\ tr[k].outcome = "ok" /\ tr[k].i = tr[k + 1].i
                 ELSE /\ tr[k + 1].i = tr[k].i + 1
                      /\ tr[k].op = "add" \/ tr[k].outcome /= "ok"
           /\ \A k, l \in Own(p) :
                 k < l => store[k].metadata.chunk_index < store[l].metadata.chunk_index

C28_Witness ==
    /\ ReachedLoop(1)
    /\ Len(store) = 2
    /\ Own(1) = {1, 2}
    /\ store[1].metadata.chunk_index = 0
    /\ store[2].metadata.chunk_index = 2
    /\ store[2].metadata.total_chunks = 3

\* C29: every record ingest_document has added has a non-empty text with no
\* whitespace at its edges and a non-empty embedding: a chunk whose
\* embedding came back empty is a failed chunk and is not stored, so no
\* ingested record is skipped by search_similar_documents.
C29_PassagesSearchable ==
    /\ \A k \in 1..Len(store) :
          /\ store[k].text /= <<>>
          /\ store[k].text[1] \notin Whitespace
          /\ store[k].text[Len(store[k].text)] \notin Whitespace
          /\ store[k].embedding /= <<>>
          /\ ~SkipsDoc(store[k])
    /\ \A p \in Calls :
          \A k \in 1..Len(call[p].trace) :
              call[p].trace[k].outcome = "empty_embedding"
                  => /\ ~Offered(call[p].trace, call[p].trace[k].i)
                     /\ \E e \in 1..Len(call[p].errors) :
                           call[p].errors[e].chunk = call[p].trace[k].i

C29_Witness ==
    /\ ReachedLoop(1)
    /\ call[1].content.text = <<"a", "a", "\n", "\n", "a", "a", "a">>
    /\ call[1].trace[1].outcome = "empty_embedding"
    /\ \E k \in Own(1) : store[k].metadata.chunk_index = 1

\* C30: in the metadata of every stored record chunk_index and total_chunks
\* are the values ingest_document computed, whatever the caller's metadata
\* holds under these names, while source_file and source_type are the
\* caller's when the caller gave them and else the file name and "uploaded".
C30_MetadataPrecedence ==
    /\ Len(provenance) = Len(store)
    /\ \A k \in 1..Len(store) :
          LET m == store[k].metadata
              pr == provenance[k]
              given == IF pr.metadata = <<>> THEN <<>> ELSE pr.metadata[1]
          IN /\ m.chunk_index = pr.i
             /\ m.total_chunks
                   = Len(chunk_text(pr.text, pr.used_size, pr.used_overlap).chunks)
             /\ m.source_file = (IF "source_file" \in DOMAIN given
                                 THEN given.source_file ELSE pr.filename)
             /\ m.source_type = (IF "source_type" \in DOMAIN given
                                 THEN given.source_type ELSE "uploaded")

C30_Witness ==
    /\ Len(store) >= 1
    /\ provenance[1].filename = "a.txt"
    /\ store[1].metadata.source_file = "x.txt"
    /\ store[1].metadata.source_type = "manual"
    /\ store[1].metadata.chunk_index = 0

----------------------------------------------------------------------------
\* Specifications: one per component, the other components idle

InitChunk ==
    /\ text \in Texts
    /\ chunk_size \in ChunkSizes
    /\ overlap \in Overlaps
    /\ start = 0
    /\ chunks = <<>>
    /\ windows = <<>>
    /\ spans = <<>>
    /\ iters = 0
    /\ pc = "call"
    /\ store = <<>>
    /\ SearchIdle
    /\ ChatIdle
    /\ IngestIdle
    /\ SanitizeIdle
    /\ WhitelistIdle

SpecChunk == InitChunk /\ [][NextChunk]_vars

InitSearch ==
    /\ store \in Stores
    /\ query_embedding \in QueryEmbeddings
    /\ top_k \in TopKs
    /\ similarity_threshold \in Thresholds
    /\ max_documents \in Caps
    /\ scanned = 0
    /\ searchResult = <<>>
    /\ searchPc = "call"
    /\ ChunkIdle
    /\ ChatIdle
    /\ IngestIdle
    /\ SanitizeIdle
    /\ WhitelistIdle

SpecSearch == InitSearch /\ [][NextSearch]_vars

InitChat ==
    /\ store \in Stores
    /\ message \in Messages
    /\ gemini_client \in BOOLEAN
    /\ firestore_client \in BOOLEAN
    /\ rag_enabled \in BOOLEAN
    /\ retrieved_docs = <<>>
    /\ ragFailed = FALSE
    /\ searchRaised = FALSE
    /\ ragFailure = "none"
    /\ generation = "none"
    /\ full_prompt = "none"
    /\ chatStatus = 0
    /\ detail = <<>>
    /\ chatPc = "request"
    /\ ChunkIdle
    /\ SearchIdle
    /\ IngestIdle
    /\ SanitizeIdle
    /\ WhitelistIdle

SpecChat == InitChat /\ [][NextChat]_vars

\* one caller: a single call with any arguments, or up to MaxCalls calls in a
\* row on short documents
InitIngest ==
    /\ pending \in {[p \in Calls |-> IF p = 1 THEN q ELSE <<>>] :
                      q \in {<<a>> : a \in AllArgs}
                            \cup UNION {[1..n -> ShortArgs] : n \in 2..MaxCalls}}
    /\ call = [p \in Calls |-> NoCall]
    /\ provenance = <<>>
    /\ finished = <<>>
    /\ store = <<>>
    /\ ChunkIdle
    /\ SearchIdle
    /\ ChatIdle
    /\ SanitizeIdle
    /\ WhitelistIdle

SpecIngest == InitIngest /\ [][NextIngest]_vars

\* two callers, each with one call on a short document, the two documents
\* having different file names
InitIngestConcurrent ==
    /\ pending \in {[p \in Calls |-> <<ab[p]>>] :
                      ab \in {x \in [Calls -> ShortArgs] : x[1].filename /= x[2].filename}}
    /\ call = [p \in Calls |-> NoCall]
    /\ provenance = <<>>
    /\ finished = <<>>
    /\ store = <<>>
    /\ ChunkIdle
    /\ SearchIdle
    /\ ChatIdle
    /\ SanitizeIdle
    /\ WhitelistIdle

SpecIngestConcurrent == InitIngestConcurrent /\ [][NextIngest]_vars

InitSanitize ==
    /\ raw \in SanitizeInputs
    /\ cleaned = <<>>
    /\ sanitizePc = "call"
    /\ store = <<>>
    /\ ChunkIdle
    /\ SearchIdle
    /\ ChatIdle
    /\ IngestIdle
    /\ WhitelistIdle

SpecSanitize == InitSanitize /\ [][NextSanitize]_vars

InitWhitelist ==
    /\ request \in Requests
    /\ ingestion_enabled \in BOOLEAN
    /\ ingestion_ip_whitelist \in WhitelistSettings
    /\ handlerReached = FALSE
    /\ mwStatus = 0
    /\ mwPc = "request"
    /\ store = <<>>
    /\ ChunkIdle
    /\ SearchIdle
    /\ ChatIdle
    /\ IngestIdle
    /\ SanitizeIdle

SpecWhitelist == InitWhitelist /\ [][NextWhitelist]_vars

\* chunk_text with the configured parameters on the long texts, and on the
\* empty text and a short one
InitChunkLong ==
    /\ text \in LongTexts \cup {<<>>, <<"a", ".", " ", "a">>}
    /\ chunk_size = settings_chunk_size
    /\ overlap = settings_chunk_overlap
    /\ start = 0
    /\ chunks = <<>>
    /\ windows = <<>>
    /\ spans = <<>>
    /\ iters = 0
    /\ pc = "call"
    /\ store = <<>>
    /\ SearchIdle
    /\ ChatIdle
    /\ IngestIdle
    /\ SanitizeIdle
    /\ WhitelistIdle

SpecChunkLong == InitChunkLong /\ [][NextChunk]_vars

====
